---- MODULE Spec2Model ----
(***************************************************************************)
(* Analytics / quiz-result collection backend.                             *)
(*                                                                         *)
(* The repository holds five deployable variants of one design:            *)
(*   "sqlite"   server.js, first program      (SQLite, session cookie)     *)
(*   "minimal"  server.js, second program     (SQLite, reduced handlers)   *)
(*   "hosted"   server-render.js              (hosted Postgres service)    *)
(*   "tracker"  unnamed/part_001, first program  (SQLite, no session)      *)
(*   "mirror"   unnamed/part_001, second program (SQLite + hosted mirror)  *)
(*                                                                         *)
(* Time is counted in ticks. An ISO-8601 UTC string of fixed width orders  *)
(* lexicographically as the instant it denotes, so a timestamp is modelled *)
(* by the instant (an integer number of ticks since the epoch, UTC).       *)
(***************************************************************************)
EXTENDS Integers, Sequences, FiniteSets, TLC

VARIABLES
    variant,      \* which program is deployed
    tz,           \* server zone: local time = UTC + tz ticks
    clock,        \* server clock (UTC instant)
    configured,   \* process.env.SUPABASE_URL is set
    events,       \* rows of table events, in insertion (rowid) order
    results,      \* rows of table results, in insertion order
    jar,          \* per client: the session_id cookie it holds
    inflight,     \* hosted POST /api/events suspended at an await, or Idle
    pending,      \* mirror: forwards issued to the secondary store, unsettled
    mirrorEvents, \* mirror: the set of rows of the secondary store's events table
    mirrorResults,\* mirror: rows of the secondary store's results table
    dash,         \* hosted GET /api/dashboard suspended at an await, or Idle
    walk,         \* a client reading GET /api/events page after page, or Idle
    req,          \* the request last answered
    resp          \* the response to it

vars == <<variant, tz, clock, configured, events, results, jar, inflight,
          pending, mirrorEvents, mirrorResults, dash, walk, req, resp>>

----------------------------------------------------------------------------
(* Bounds of the model *)

MaxClock == 2        \* the clock runs 0 .. MaxClock
MaxEvents == 2       \* rows the events table may hold
MaxResults == 2      \* rows the results table may hold
MaxBatch == 2        \* items of one batch
MaxPage == 2         \* page numbers requested: 1 .. MaxPage
MaxMirror == 2       \* rows forwarded to the secondary store

(* Program constants *)

MaxPageSize == 500       \* Math.min(..., 500)
DefaultPageSize == 100   \* Number(pageSize) || 100
TopEventsLimit == 6      \* LIMIT 6 / slice(0, 6)
PageViewsLimit == 10     \* LIMIT 10
TrackerPageViewsLimit == 6

(* Scale of the time model: ticks of one calendar day *)
TicksPerDay == 2

Variants == {"sqlite", "minimal", "hosted", "tracker", "mirror"}
TzOffsets == {0, 1}
Clients == {"c1", "c2"}

(* JS undefined / SQL NULL for a session id; nanoid() values are 1, 2, ... *)
NoSession == 0
(* JS undefined for a text field; "" is the empty string *)
Undef == "<undefined>"
(* SQL NULL in a text column *)
Null == "<null>"
(* JS undefined for an object-valued field *)
UndefObj == [undefined |-> TRUE]
EmptyObj == [empty |-> TRUE]
Idle == [active |-> FALSE]

Min(a, b) == IF a <= b THEN a ELSE b
Max(a, b) == IF a >= b THEN a ELSE b

(* JSON.stringify / JSON.parse: the text is not the value it encodes *)
JSONstringify(v) == [json |-> v]
JSONparse(t) == t.json

(* nanoid() returns a value that occurs nowhere else: the i-th of a run of *)
(* calls made while the values `used` are held somewhere in the system.    *)
nanoid(used, i) ==
    LET avail == (1 .. (Cardinality(used) + i)) \ used
    IN  CHOOSE x \in avail : Cardinality({y \in avail : y < x}) = i - 1

RECURSIVE SeqToSet(_)
SeqToSet(s) == IF s = <<>> THEN {} ELSE {Head(s)} \cup SeqToSet(Tail(s))

(* Session tokens held anywhere: cookies, rows, handlers, responses *)
UsedTokens ==
    {events[i].session_id : i \in DOMAIN events}
    \cup {results[i].session_id : i \in DOMAIN results}
    \cup {jar[c] : c \in Clients}
    \cup SeqToSet(resp.setCookie)
    \cup (IF inflight.active
          THEN SeqToSet(inflight.setCookie) \cup {inflight.cookie}
          ELSE {})
    \cup (IF dash.active
          THEN SeqToSet(dash.setCookie) \cup {dash.cookie}
          ELSE {})

(* Row ids held anywhere: both stores, forwards, handlers, and the ids of   *)
(* the request last answered while the next handler is already generating  *)
(* its own (only the hosted handler is suspended between its inserts)      *)
UsedRowIds ==
    (IF variant = "hosted" THEN SeqToSet(resp.ids) ELSE {})
    \cup {events[i].id : i \in DOMAIN events}
    \cup {results[i].id : i \in DOMAIN results}
    \cup {p.row.id : p \in pending}
    \cup {r.id : r \in mirrorEvents \cup mirrorResults}
    \cup (IF inflight.active THEN SeqToSet(inflight.ids) ELSE {})

----------------------------------------------------------------------------
(* Session middleware: app.use((req, res, next) => ...) *)

SessionMiddlewareAlways(cookie, used) == <<nanoid(used, 1)>>

(* The Set-Cookie headers the middleware adds for a request carrying      *)
(* `cookie`: res.cookie('session_id', nanoid(), ...) when none is carried. *)
SessionMiddleware(cookie, used) ==
    IF cookie = NoSession THEN <<nanoid(used, 1)>> ELSE <<>>

HasSession(v) == v \in {"sqlite", "minimal", "hosted", "mirror"}

(* Set-Cookie headers of a response of variant v *)
SetCookies(v, cookie, used) ==
    IF HasSession(v) THEN SessionMiddleware(cookie, used) ELSE <<>>

ReqSessionResolved(v, cookie) == IF cookie = NoSession THEN 1 ELSE cookie

(* req.cookies.session_id as the handlers read it: cookie-parser fills it  *)
(* from the request's Cookie header; the tracker has no cookie parser.     *)
ReqSession(v, cookie) == IF HasSession(v) THEN cookie ELSE NoSession

(* The cookie a client holds after a response *)
StoreCookie(old, setCookie) ==
    IF Len(setCookie) > 0 THEN setCookie[Len(setCookie)] ELSE old

----------------------------------------------------------------------------
(* Request payloads *)

(* One item of a POST /api/events body. isNull: the item is JSON null.     *)
Item(type, event, page, payload, properties, ts, sessionId) ==
    [isNull |-> FALSE, type |-> type, event |-> event, page |-> page,
     payload |-> payload, properties |-> properties, ts |-> ts,
     sessionId |-> sessionId, userId |-> Undef]

NoTs == -1
EmptyItem == Item(Undef, Undef, Undef, UndefObj, UndefObj, NoTs, NoSession)
NullItem == [EmptyItem EXCEPT !.isNull = TRUE]
PageViewItem == [EmptyItem EXCEPT !.event = "page_view", !.page = "/quiz"]
SelectItem == [EmptyItem EXCEPT !.event = "option_select", !.page = "/quiz"]
(* an item that names its own timestamp and session, as the tracker reads *)
StampedItem == [EmptyItem EXCEPT !.event = "page_view", !.page = "/",
                                 !.ts = 0, !.sessionId = 101]

Batch(b) == [isBatch |-> TRUE, batch |-> b, item |-> EmptyItem]
Single(it) == [isBatch |-> FALSE, batch |-> <<>>, item |-> it]

(* Bodies of POST /api/events: {batch: [...]} or a single event-like body *)
EventBodies ==
    {body \in {Batch(<<>>),
               Batch(<<PageViewItem, SelectItem>>),
               Batch(<<StampedItem, SelectItem>>),
               Batch(<<PageViewItem, NullItem>>),
               Single(PageViewItem),
               Single(EmptyItem)} : Len(body.batch) <= MaxBatch}

Scores == [mind |-> 80, energy |-> 20]
ResultBodies ==
    {[result_name |-> Undef, scores |-> UndefObj],
     [result_name |-> "INTJ", scores |-> Scores]}

----------------------------------------------------------------------------
(* Field resolution of one event item *)

(* a || b on text: undefined and '' are falsy *)
OrText(a, b) == IF a \in {Undef, ""} THEN b ELSE a
(* a || b on objects: undefined is falsy, every object is truthy *)
OrObj(a, b) == IF a = UndefObj THEN b ELSE a
(* it.properties?.f *)
PropOf(it, f) ==
    IF it.properties = UndefObj THEN Undef
    ELSE IF f \in DOMAIN it.properties THEN it.properties[f] ELSE Undef
(* better-sqlite3 binds undefined as NULL *)
BindText(x) == IF x = Undef THEN Null ELSE x

ResolvePage(v, it) ==
    CASE v \in {"sqlite", "hosted", "mirror"} ->
            OrText(it.page, OrText(PropOf(it, "page"), ""))
      [] v = "minimal" -> OrText(it.page, "")
      [] v = "tracker" -> BindText(it.page)

ResolveType(v, it) ==
    CASE v \in {"sqlite", "hosted", "mirror"} ->
            OrText(it.type, OrText(it.event, OrText(PropOf(it, "event"), "custom")))
      [] v = "minimal" -> OrText(it.type, "custom")
      [] v = "tracker" -> BindText(it.event)

ResolvePayload(v, it) ==
    CASE v \in {"sqlite", "hosted", "mirror"} ->
            JSONstringify(OrObj(it.payload, OrObj(it.properties, EmptyObj)))
      [] v = "minimal" -> JSONstringify(OrObj(it.payload, EmptyObj))
      [] v = "tracker" -> JSONstringify(OrObj(it.properties, EmptyObj))

(* the timestamp written for an item: `now` is the handler's clock reading; *)
(* the tracker writes r.ts || new Date().toISOString()                      *)
ResolveTs(v, it, now) ==
    IF v = "tracker" /\ it.ts # NoTs THEN it.ts ELSE now

(* the session id written for an item *)
ResolveSession(v, it, session) ==
    IF v = "tracker" THEN it.sessionId ELSE session

(* the row stInsertEvent.run / stmt.run / supabase insert is given *)
EventRow(v, it, id, now, session, ip) ==
    [id |-> id, ts |-> ResolveTs(v, it, now),
     session_id |-> ResolveSession(v, it, session),
     ip |-> IF v = "tracker" THEN Null ELSE ip,
     userId |-> IF v = "tracker" THEN BindText(it.userId) ELSE Null,
     page |-> ResolvePage(v, it), type |-> ResolveType(v, it),
     payload |-> ResolvePayload(v, it)]

(* const items = Array.isArray(body.batch) ? body.batch : [body] *)
ItemsOf(v, body) ==
    IF body.isBatch THEN body.batch
    ELSE IF v = "tracker" THEN <<>> ELSE <<body.item>>

(* position of the first item whose field access throws a TypeError, or 0 *)
FirstNull(items) ==
    IF \E i \in DOMAIN items : items[i].isNull
    THEN CHOOSE i \in DOMAIN items :
            items[i].isNull /\ \A j \in 1 .. (i - 1) : ~items[j].isNull
    ELSE 0

----------------------------------------------------------------------------
(* Requests, responses, initial state *)

NoCount == -1
NoReq == [op |-> "none", client |-> "c1", cookie |-> NoSession]
NoResp == [op |-> "none", status |-> 0, setCookie |-> <<>>, ids |-> <<>>]

(* req.headers['x-forwarded-for'] || req.socket.remoteAddress || '' *)
ClientIp(c) == c

Init ==
    /\ variant \in Variants
    /\ tz \in TzOffsets
    /\ clock = 0
    /\ configured \in (IF variant = "mirror" THEN BOOLEAN ELSE {FALSE})
    /\ events = <<>>
    /\ results = <<>>
    /\ jar = [c \in Clients |-> NoSession]
    /\ inflight = Idle
    /\ dash = Idle
    /\ walk = Idle
    /\ pending = {}
    /\ mirrorEvents = {}
    /\ mirrorResults = {}
    /\ req = NoReq
    /\ resp = NoResp

(* time passes *)
Tick ==
    /\ clock < MaxClock
    /\ clock' = clock + 1
    /\ UNCHANGED <<walk, dash, variant, tz, configured, events, results, jar, inflight,
                   pending, mirrorEvents, mirrorResults, req, resp>>

(* first position at which the transaction body throws, or 0: a TypeError  *)
(* on a null item, or the insert statement failing at item failAt          *)
ThrowAt(items, failAt) ==
    LET n == FirstNull(items)
    IN  IF n = 0 THEN failAt
        ELSE IF failAt = 0 THEN n
        ELSE IF failAt < n THEN failAt ELSE n

(* items handed to supabaseOps.insertEvent before the body ended or threw *)
ForwardedUpTo(items, thrown) ==
    IF thrown = 0 THEN Len(items) ELSE thrown - 1

(* the throw came from the insert statement, not from reading the item *)
StoreThrew(items, failAt) ==
    failAt # 0 /\ ThrowAt(items, failAt) = failAt /\ FirstNull(items) # failAt

ForwardsTwice(v, conf, table, rows, upTo) ==
    IF v = "mirror" /\ conf
    THEN {[table |-> table, row |-> rows[i], call |-> 2 * i - k] :
             i \in 1 .. upTo, k \in {0, 1}}
    ELSE {}

(* the calls of supabaseOps.insertEvent / insertResult a handler makes:    *)
(* the call-th call of the request hands over rows[call]                   *)
Forwards(v, conf, table, rows, upTo) ==
    IF v = "mirror" /\ conf
    THEN {[table |-> table, row |-> rows[i], call |-> i] : i \in 1 .. upTo}
    ELSE {}

(* rows the secondary store holds or is about to be sent *)
MirrorLoad(fwds) ==
    Cardinality(fwds) + Cardinality(mirrorEvents) + Cardinality(mirrorResults)

TransactionTruncating(table, rows, thrown) ==
    IF thrown = 0 THEN table \o rows
    ELSE SubSeq(table, 1, Len(table) - 1)

(* insertMany = db.transaction(...): the table after the call. The rows    *)
(* are appended when the body returns; a throw rolls back to the table as  *)
(* it was before the call                                                  *)
Transaction(table, rows, thrown) ==
    IF thrown = 0 THEN table \o rows ELSE table

(* POST /api/events of the SQLite programs: one db.transaction *)
PostEvents(c, body, failAt) ==
    /\ variant \in {"sqlite", "minimal", "tracker", "mirror"}
    /\ LET cookie == jar[c]
           setCookie == SetCookies(variant, cookie, UsedTokens)
           session == ReqSession(variant, cookie)
           items == ItemsOf(variant, body)
           N == Len(items)
           thrown == ThrowAt(items, failAt)
           newId(i) == IF variant = "tracker" THEN Len(events) + i
                       ELSE nanoid(UsedRowIds, i)
           rows == [i \in 1 .. N |->
                      IF items[i].isNull THEN EmptyItem
                      ELSE EventRow(variant, items[i], newId(i), clock, session,
                                    ClientIp(c))]
           fwd == Forwards(variant, configured, "events", rows,
                           ForwardedUpTo(items, thrown))
       IN  /\ failAt \in 0 .. N
           /\ Len(events) + N <= MaxEvents
           /\ MirrorLoad(pending \cup fwd) <= MaxMirror
           /\ events' = Transaction(events, rows, thrown)
           /\ pending' = pending \cup fwd
           /\ jar' = [jar EXCEPT ![c] = StoreCookie(@, setCookie)]
           /\ req' = [op |-> "postEvents", client |-> c, cookie |-> cookie,
                      body |-> body]
           /\ resp' = [op |-> "postEvents",
                       status |-> IF thrown = 0 THEN 200 ELSE 500,
                       ok |-> thrown = 0,
                       storeThrew |-> StoreThrew(items, failAt),
                       inserted |-> IF thrown = 0 /\ variant # "tracker"
                                    THEN N ELSE NoCount,
                       setCookie |-> setCookie,
                       ids |-> [i \in 1 .. ForwardedUpTo(items, thrown) |->
                                  rows[i].id]]
    /\ UNCHANGED <<walk, dash, variant, tz, clock, configured, results, inflight,
                   mirrorEvents, mirrorResults>>

(* The hosted program's POST /api/events awaits one insert per item.       *)
(* Continue(h) runs the handler from item h.i on, up to its next await or  *)
(* its response: <<handler state, response or NoResp>>.                    *)
(* storeThrew: no insert of the hosted handler throws, a failed one        *)
(* returns {error}                                                         *)
HostedResponse(h, status) ==
    [op |-> "postEvents", status |-> status, ok |-> status = 200,
     storeThrew |-> FALSE,
     inserted |-> IF status = 200 THEN Len(h.items) ELSE NoCount,
     setCookie |-> h.setCookie, ids |-> h.ids]

HostedRequest(h) ==
    [op |-> "postEvents", client |-> h.client, cookie |-> h.cookie,
     body |-> h.body]

HostedContinue(h, used) ==
    IF h.i > Len(h.items) THEN <<Idle, HostedResponse(h, 200)>>
    ELSE IF h.items[h.i].isNull THEN <<Idle, HostedResponse(h, 500)>>
    ELSE <<[h EXCEPT !.ids = Append(@, nanoid(used, 1))], NoResp>>

HostedPostEvents(c, body) ==
    /\ variant = "hosted"
    /\ ~inflight.active
    /\ LET cookie == jar[c]
           setCookie == SessionMiddleware(cookie, UsedTokens)
           h == [active |-> TRUE, client |-> c, cookie |-> cookie,
                 setCookie |-> setCookie, body |-> body, now |-> clock,
                 items |-> ItemsOf(variant, body), i |-> 1, ids |-> <<>>]
           out == HostedContinue(h, UsedRowIds)
       IN  /\ Len(events) + Len(h.items) <= MaxEvents
           /\ IF out[2] = NoResp
              THEN /\ inflight' = out[1]
                   /\ UNCHANGED <<jar, req, resp>>
              ELSE /\ inflight' = Idle
                   /\ jar' = [jar EXCEPT ![c] = StoreCookie(@, setCookie)]
                   /\ req' = HostedRequest(h)
                   /\ resp' = out[2]
    /\ UNCHANGED <<walk, dash, variant, tz, clock, configured, events, results, pending,
                   mirrorEvents, mirrorResults>>

(* the awaited insert of item h.i settles: stored, or {error} (logged) *)
HostedInsertSettles(stored) ==
    /\ variant = "hosted"
    /\ inflight.active
    /\ LET h == inflight
           row == EventRow(variant, h.items[h.i], h.ids[Len(h.ids)], h.now,
                           h.cookie, ClientIp(h.client))
           out == HostedContinue([h EXCEPT !.i = @ + 1], UsedRowIds)
       IN  /\ events' = IF stored THEN Append(events, row) ELSE events
           /\ IF out[2] = NoResp
              THEN /\ inflight' = out[1]
                   /\ UNCHANGED <<jar, req, resp>>
              ELSE /\ inflight' = Idle
                   /\ jar' = [jar EXCEPT ![h.client] = StoreCookie(@, h.setCookie)]
                   /\ req' = HostedRequest(h)
                   /\ resp' = out[2]
    /\ UNCHANGED <<walk, dash, variant, tz, clock, configured, results, pending,
                   mirrorEvents, mirrorResults>>

MirrorSettlesSurfacing(p, stored) ==
    /\ variant = "mirror"
    /\ p \in pending
    /\ pending' = pending \ {p}
    /\ mirrorEvents' = IF stored /\ p.table = "events"
                       THEN mirrorEvents \cup {p.row} ELSE mirrorEvents
    /\ mirrorResults' = IF stored /\ p.table = "results"
                        THEN mirrorResults \cup {p.row} ELSE mirrorResults
    /\ resp' = IF stored THEN resp ELSE [resp EXCEPT !.status = 500]
    /\ UNCHANGED <<walk, dash, variant, tz, clock, configured, events, results, jar,
                   inflight, req>>

(* the settled mirror forwards: stored by the secondary store, or failed   *)
(* with an error that supabaseOps logs and drops                            *)
MirrorSettles(p, stored) ==
    /\ variant = "mirror"
    /\ p \in pending
    /\ pending' = pending \ {p}
    /\ mirrorEvents' = IF stored /\ p.table = "events"
                       THEN mirrorEvents \cup {p.row} ELSE mirrorEvents
    /\ mirrorResults' = IF stored /\ p.table = "results"
                        THEN mirrorResults \cup {p.row} ELSE mirrorResults
    /\ UNCHANGED <<walk, dash, variant, tz, clock, configured, events, results, jar,
                   inflight, req, resp>>

(* JSON.stringify(undefined) is undefined, bound as NULL *)
NullJson == [null |-> TRUE]

(* the row POST /api/results writes *)
ResultRow(v, body, id, now, session) ==
    IF v = "tracker"
    THEN [id |-> id, ts |-> now, session_id |-> NoSession,
          result_name |-> BindText(body.result_name),
          score_json |-> IF body.scores = UndefObj THEN NullJson
                         ELSE JSONstringify(body.scores)]
    ELSE [id |-> id, ts |-> now, session_id |-> session,
          result_name |-> IF body.result_name = Undef THEN "" ELSE body.result_name,
          score_json |-> JSONstringify(OrObj(body.scores, EmptyObj))]

(* POST /api/results. stored: the insert statement succeeds. *)
PostResults(c, body, stored) ==
    /\ Len(results) < MaxResults
    /\ LET cookie == jar[c]
           setCookie == SetCookies(variant, cookie, UsedTokens)
           session == ReqSession(variant, cookie)
           id == IF variant = "tracker" THEN Len(results) + 1
                 ELSE nanoid(UsedRowIds, 1)
           row == ResultRow(variant, body, id, clock, session)
           fwd == IF stored
                  THEN Forwards(variant, configured, "results", <<row>>, 1)
                  ELSE {}
           (* the hosted program logs the insert's error and answers ok *)
           failed == ~stored /\ variant # "hosted"
       IN  /\ MirrorLoad(pending \cup fwd) <= MaxMirror
           /\ results' = IF stored THEN Append(results, row) ELSE results
           /\ pending' = pending \cup fwd
           /\ jar' = [jar EXCEPT ![c] = StoreCookie(@, setCookie)]
           /\ req' = [op |-> "postResults", client |-> c, cookie |-> cookie,
                      body |-> body]
           /\ resp' = [op |-> "postResults",
                       status |-> IF failed THEN 500 ELSE 200,
                       ok |-> ~failed, setCookie |-> setCookie, ids |-> <<id>>]
    /\ UNCHANGED <<walk, dash, variant, tz, clock, configured, events, inflight,
                   mirrorEvents, mirrorResults>>

----------------------------------------------------------------------------
(* Query primitives *)

Range(q) == {q[i] : i \in DOMAIN q}

(* ORDER BY ts DESC: every arrangement of the rows S in non-increasing ts;  *)
(* rows of equal ts come in an order the store chooses                      *)
OrderByTsDesc(S) ==
    {p \in [1 .. Cardinality(S) -> S] :
        /\ \A i, j \in DOMAIN p : i # j => p[i] # p[j]
        /\ \A i, j \in DOMAIN p : i < j => p[i].ts >= p[j].ts}

(* rows of a results table recorded under session token t *)
ResultsOfAnySession(rows, t) == rows

ResultsOfSession(rows, t) == {r \in rows : r.session_id = t}

(* scores as the hosted store returns them: r.score_json || {} *)
FormatHosted(r) ==
    [id |-> r.id, timestamp |-> r.ts, result_name |-> r.result_name,
     scores |-> r.score_json]
(* scores as read from SQLite: r.score_json ? JSON.parse(r.score_json) : {} *)
FormatSqlite(r) ==
    [id |-> r.id, timestamp |-> r.ts, result_name |-> r.result_name,
     scores |-> IF r.score_json = NullJson THEN EmptyObj
                ELSE JSONparse(r.score_json)]

ServedFromSecondaryAlways(list) == TRUE

(* formattedResults.length === 0 sends the handler to SQLite *)
ServedFromSecondary(list) == Len(list) > 0

(* queried: the stores the handler asked; failed: those that answered with *)
(* an error or threw                                                       *)
UserResultsResponse(status, session, list, setCookie, queried, failed) ==
    [op |-> "userResults", status |-> status, session_id |-> session,
     results |-> list, total |-> Len(list), setCookie |-> setCookie,
     ids |-> <<>>, queried |-> queried, failed |-> failed]

(* GET /api/user-results. remoteOk: the hosted / secondary store answers    *)
(* without error; dbOk: the SQLite statement does not throw.                *)
GetUserResults(c, remoteOk, dbOk) ==
    /\ variant \in {"hosted", "mirror"}
    /\ LET cookie == jar[c]
           setCookie == SetCookies(variant, cookie, UsedTokens)
           session == ReqSession(variant, cookie)
           remote == IF variant = "hosted" THEN Range(results) ELSE mirrorResults
           asked == IF configured THEN {"secondary"} ELSE {}
           lost == IF configured /\ ~remoteOk THEN {"secondary"} ELSE {}
       IN  /\ jar' = [jar EXCEPT ![c] = StoreCookie(@, setCookie)]
           /\ req' = [op |-> "userResults", client |-> c, cookie |-> cookie]
           /\ IF session = NoSession
              THEN resp' = UserResultsResponse(400, session, <<>>, setCookie, {}, {})
              ELSE IF variant = "hosted"
              THEN IF remoteOk
                   THEN \E rows \in OrderByTsDesc(ResultsOfSession(remote, session)) :
                          resp' = UserResultsResponse(200, session,
                                      [i \in DOMAIN rows |-> FormatHosted(rows[i])],
                                      setCookie, {"primary"}, {})
                   ELSE resp' = UserResultsResponse(500, session, <<>>, setCookie,
                                                    {"primary"}, {"primary"})
              ELSE \E fromMirror \in
                        (IF configured /\ remoteOk
                         THEN OrderByTsDesc(ResultsOfSession(remote, session))
                         ELSE {<<>>}) :
                     IF ServedFromSecondary(fromMirror)
                     THEN resp' = UserResultsResponse(200, session,
                                      [i \in DOMAIN fromMirror |->
                                         FormatHosted(fromMirror[i])],
                                      setCookie, asked, lost)
                     ELSE IF dbOk
                     THEN \E rows \in OrderByTsDesc(ResultsOfSession(Range(results), session)) :
                            resp' = UserResultsResponse(200, session,
                                        [i \in DOMAIN rows |-> FormatSqlite(rows[i])],
                                        setCookie, asked \cup {"primary"}, lost)
                     ELSE resp' = UserResultsResponse(500, session, <<>>, setCookie,
                                      asked \cup {"primary"}, lost \cup {"primary"})
    /\ UNCHANGED <<walk, dash, variant, tz, clock, configured, events, results, inflight,
                   pending, mirrorEvents, mirrorResults>>

----------------------------------------------------------------------------
(* Paged range queries: GET /api/events, GET /api/results *)

NoDate == -1
Days == 0 .. (MaxClock \div TicksPerDay)

(* dayjs(D).startOf('day').toISOString(): local midnight of day D *)
StartOfDay(D, zone) == D * TicksPerDay - zone
(* dayjs(D).endOf('day').toISOString(): the last instant of local day D *)
EndOfDay(D, zone) == StartOfDay(D, zone) + TicksPerDay - 1
(* the date-only text D compared with a timestamptz column: midnight UTC *)
DateAsTimestamp(D) == D * TicksPerDay

(* a pageSize query parameter: absent, or text that Number() reads *)
NoPageSize == [given |-> FALSE, numeric |-> FALSE, value |-> 0]
PageSizeText(n) == [given |-> TRUE, numeric |-> TRUE, value |-> n]
NotANumber == [given |-> TRUE, numeric |-> FALSE, value |-> 0]
PageSizes ==
    {NoPageSize, NotANumber} \cup
    {PageSizeText(n) : n \in {-1, 0, 1, 2, MaxPageSize + 1}}

(* Math.min(Number(pageSize) || 100, 500) *)
LimitOf(pageSize) ==
    LET n == IF pageSize.given /\ pageSize.numeric /\ pageSize.value # 0
             THEN pageSize.value ELSE DefaultPageSize
    IN  Min(n, MaxPageSize)

OffsetOfMutant(page, limit) == page * limit

(* (Number(page) - 1) * limit *)
OffsetOf(page, limit) == (page - 1) * limit

(* the lower bound on ts a start parameter sets in variant v *)
StartBound(v, start, zone) ==
    IF v = "hosted" THEN DateAsTimestamp(start) ELSE StartOfDay(start, zone)
(* the upper bound on ts an end parameter sets in variant v *)
EndBound(v, end, zone) ==
    IF v = "hosted" THEN DateAsTimestamp(end) ELSE EndOfDay(end, zone)

(* WHERE (@start IS NULL OR ts >= @start) AND (@end IS NULL OR ts <= @end) *)
FilterByDate(v, table, start, end, zone) ==
    {r \in Range(table) :
        /\ (start = NoDate \/ r.ts >= StartBound(v, start, zone))
        /\ (end = NoDate \/ r.ts <= EndBound(v, end, zone))}

(* LIMIT limit OFFSET offset on an ordered result: SQLite reads a negative *)
(* LIMIT as no limit and a negative OFFSET as 0                            *)
LimitOffset(ordered, limit, offset) ==
    LET from == Max(offset, 0) + 1
        to == IF limit < 0 THEN Len(ordered)
              ELSE Min(Len(ordered), from + limit - 1)
    IN  IF from > to THEN <<>> ELSE [i \in 1 .. (to - from + 1) |-> ordered[from + i - 1]]

FormatEvent(v, r) ==
    [id |-> r.id, timestamp |-> r.ts, event_name |-> r.type,
     session_id |-> r.session_id, page |-> r.page,
     properties |-> IF v = "hosted" THEN r.payload ELSE JSONparse(r.payload)]

FormatResult(v, r) ==
    [id |-> r.id, timestamp |-> r.ts, session_id |-> r.session_id,
     result |-> r.result_name,
     scores |-> IF v = "hosted" THEN r.score_json ELSE JSONparse(r.score_json)]

FormatRow(v, what, r) ==
    IF what = "getEvents" THEN FormatEvent(v, r) ELSE FormatResult(v, r)

(* the programs that serve the paged queries *)
PagedVariants == {"sqlite", "minimal", "hosted", "mirror"}

(* faults: a store call of the request failed *)
QueryResponse(what, status, rows, limit, setCookie, faults) ==
    [op |-> what, status |-> status, rows |-> rows, limit |-> limit,
     setCookie |-> setCookie, ids |-> <<>>, faults |-> faults]

(* GET /api/events (what = "getEvents") and GET /api/results ("getResults") *)
(* storeOk: the statement / the hosted query returns without error.         *)
GetPaged(what, c, start, end, page, pageSize, storeOk) ==
    /\ variant \in PagedVariants
    /\ LET cookie == jar[c]
           setCookie == SetCookies(variant, cookie, UsedTokens)
           limit == LimitOf(pageSize)
           offset == OffsetOf(page, limit)
           table == IF what = "getEvents" THEN events ELSE results
           matching == FilterByDate(variant, table, start, end, tz)
           (* the hosted store rejects a range whose length is negative *)
           failed == ~storeOk \/ (variant = "hosted" /\ limit < 0)
       IN  /\ jar' = [jar EXCEPT ![c] = StoreCookie(@, setCookie)]
           /\ req' = [op |-> what, client |-> c, cookie |-> cookie,
                      start |-> start, end |-> end, page |-> page,
                      pageSize |-> pageSize]
           /\ IF failed
              THEN resp' = QueryResponse(what, 500, <<>>, limit, setCookie, TRUE)
              ELSE \E ordered \in OrderByTsDesc(matching) :
                     resp' = QueryResponse(what, 200,
                                 [i \in DOMAIN LimitOffset(ordered, limit, offset) |->
                                    FormatRow(variant, what,
                                              LimitOffset(ordered, limit, offset)[i])],
                                 limit, setCookie, FALSE)
    /\ UNCHANGED <<dash, variant, tz, clock, configured, events, results, inflight,
                   pending, mirrorEvents, mirrorResults>>

(* A database that already holds rows when the server starts: the tables   *)
(* persist across restarts (CREATE TABLE IF NOT EXISTS). Row i was written *)
(* at time tss[i] by POST /api/events and POST /api/results.               *)
MaxStored == 3

StoredTimes ==
    UNION {{q \in [1 .. n -> 0 .. MaxClock] :
              \A i, j \in 1 .. n : i < j => q[i] <= q[j]} : n \in 0 .. MaxStored}

(* the i-th stored event: page views and option selects of two sessions *)
StoredItem(i) ==
    IF i % 2 = 1 THEN [PageViewItem EXCEPT !.sessionId = 101]
    ELSE [SelectItem EXCEPT !.sessionId = 102, !.page = "/result"]

StoredEvents(v, tss) ==
    [i \in DOMAIN tss |->
        EventRow(v, StoredItem(i), i, tss[i], StoredItem(i).sessionId, "c1")]

StoredResults(v, tss) ==
    [i \in DOMAIN tss |->
        ResultRow(v, [result_name |-> "INTJ", scores |-> Scores], i, tss[i],
                  StoredItem(i).sessionId)]

InitStored(vs, requests) ==
    /\ variant \in vs
    /\ tz \in TzOffsets
    /\ clock = MaxClock
    /\ configured = FALSE
    /\ \E tss \in StoredTimes :
          /\ events = StoredEvents(variant, tss)
          /\ results = StoredResults(variant, tss)
    /\ jar = [c \in Clients |-> NoSession]
    /\ inflight = Idle
    /\ dash = Idle
    /\ walk = Idle
    /\ pending = {}
    /\ mirrorEvents = {}
    /\ mirrorResults = {}
    /\ req \in requests
    /\ resp = NoResp

(* the paged queries a client may send *)
QueryRequests ==
    {[op |-> what, client |-> "c1", cookie |-> NoSession, start |-> start,
      end |-> end, page |-> page, pageSize |-> pageSize] :
        what \in {"getEvents", "getResults"},
        start \in {NoDate} \cup Days, end \in {NoDate} \cup Days,
        page \in 1 .. MaxPage, pageSize \in PageSizes}

(* the request received is answered, once *)
NextQuery ==
    \E storeOk \in BOOLEAN :
        /\ resp = NoResp
        /\ GetPaged(req.op, req.client, req.start, req.end, req.page,
                    req.pageSize, storeOk)
        /\ UNCHANGED walk

InitQuery == InitStored(PagedVariants, QueryRequests)

SpecQuery == InitQuery /\ [][NextQuery]_vars

(* A client reads GET /api/events page after page with one filter and one  *)
(* page size, while nothing is written.                                    *)
MaxWalk == 4
WalkPageSizes == {PageSizeText(1), PageSizeText(2)}

IdsOf(rows) == [i \in DOMAIN rows |-> rows[i].id]

(* The client starts. order: the arrangement of equal timestamps the       *)
(* SQLite engine produces for this statement over the unchanged table: not *)
(* fixed by ORDER BY ts, but the same for every execution.                 *)
WalkBegins(start, end, pageSize) ==
    /\ variant \in PagedVariants
    /\ ~walk.active
    /\ \E order \in OrderByTsDesc(FilterByDate(variant, events, start, end, tz)) :
          walk' = [active |-> TRUE, start |-> start, end |-> end,
                   pageSize |-> pageSize, order |-> IdsOf(order),
                   next |-> 1, got |-> <<>>, done |-> FALSE]
    /\ UNCHANGED <<dash, variant, tz, clock, configured, events, results, jar,
                   inflight, pending, mirrorEvents, mirrorResults, req, resp>>

(* The client requests its next page; it stops at a page shorter than the  *)
(* page size. The hosted store sorts anew for every query and may arrange  *)
(* equal timestamps differently each time.                                 *)
NextPage ==
    /\ walk.active /\ ~walk.done
    /\ walk.next <= MaxWalk
    /\ GetPaged("getEvents", "c1", walk.start, walk.end, walk.next,
                walk.pageSize, TRUE)
    /\ LET limit == LimitOf(walk.pageSize)
       IN  /\ variant # "hosted" =>
                 IdsOf(resp'.rows) =
                     LimitOffset(walk.order, limit, OffsetOf(walk.next, limit))
           /\ walk' = [walk EXCEPT !.next = @ + 1,
                                   !.got = Append(@, IdsOf(resp'.rows)),
                                   !.done = Len(resp'.rows) < limit]

InitPages == InitStored(PagedVariants, {NoReq})
NextPages ==
    \/ \E start \in {NoDate} \cup Days, end \in {NoDate} \cup Days,
          pageSize \in WalkPageSizes : WalkBegins(start, end, pageSize)
    \/ NextPage

SpecPages == InitPages /\ [][NextPages]_vars

----------------------------------------------------------------------------
(* GET /api/dashboard *)

(* the calendar day, in the server's zone, of instant t *)
LocalDay(t, zone) == (t + zone) \div TicksPerDay

(* COUNT(DISTINCT session_id): NULL is not counted *)
CountDistinctSessions(rows) ==
    Cardinality({r.session_id : r \in rows} \ {NoSession})

GroupsUncounted(rows, key) ==
    {[key |-> k, count |-> 1] : k \in {key[r] : r \in rows}}

(* SELECT key, COUNT ... GROUP BY key: one row per key with its row count *)
(* key: the grouping expression, a function of the row                      *)
GroupCounts(rows, key) ==
    {[key |-> k, count |-> Cardinality({r \in rows : key[r] = k})] :
        k \in {key[r] : r \in rows}}

(* ORDER BY count DESC: groups of equal count in an order the store picks *)
OrderByCountDesc(G) ==
    {p \in [1 .. Cardinality(G) -> G] :
        /\ \A i, j \in DOMAIN p : i # j => p[i] # p[j]
        /\ \A i, j \in DOMAIN p : i < j => p[i].count >= p[j].count}

(* ORDER BY hour: the groups by ascending key *)
OrderByKeyAsc(G) ==
    CHOOSE p \in [1 .. Cardinality(G) -> G] :
        /\ \A i, j \in DOMAIN p : i # j => p[i] # p[j]
        /\ \A i, j \in DOMAIN p : i < j => p[i].key < p[j].key

(* LIMIT n / slice(0, n) *)
Take(q, n) == [i \in 1 .. Min(Len(q), n) |-> q[i]]

TypeOf(rows) == [r \in rows |-> r.type]
PageOf(rows) == [r \in rows |-> r.page]
ResultNameOf(rows) == [r \in rows |-> r.result_name]
(* strftime('%H', ts): the hour of the UTC day *)
HourOf(rows) == [r \in rows |-> r.ts % TicksPerDay]

(* the events the "today" statements of variant v select at time now *)
TodayRows(v, rows, now, zone) ==
    IF v = "tracker"
    (* ts >= `${today}T00:00:00Z` compares text: a timestamp written with *)
    (* milliseconds, "...T00:00:00.000Z", sorts before "...T00:00:00Z"    *)
    THEN {r \in rows : r.ts > DateAsTimestamp(LocalDay(now, zone))}
    ELSE {r \in rows : r.ts >= StartOfDay(LocalDay(now, zone), zone)}

(* the rows the pageViews statement groups by page *)
PageViewRows(v, rows) ==
    CASE v \in {"sqlite", "mirror"} -> {r \in rows : r.type = "page_view"}
      [] v = "tracker" -> rows
      [] v = "hosted" -> {}

PageViewsCap(v) == IF v = "tracker" THEN TrackerPageViewsLimit ELSE PageViewsLimit

DashVariants == {"sqlite", "hosted", "tracker", "mirror"}
DashQueries == {"totalEvents", "users", "todayEvents", "topEvents", "results"}

(* rows a statement of the hosted handler sees: none when it returns an   *)
(* error, which the handler does not look at                              *)
Seen(rows, q, failing) == IF q \in failing THEN {} ELSE rows

(* GET /api/dashboard. dbOk: no SQLite statement throws. failing: the     *)
(* statements of the hosted handler that return an error.                 *)
GetDashboard(c, dbOk, failing) ==
    /\ variant \in DashVariants
    /\ (variant = "hosted" \/ failing = {})
    /\ (variant # "hosted" \/ dbOk)
    /\ LET cookie == jar[c]
           setCookie == SetCookies(variant, cookie, UsedTokens)
           ev == Range(events)
           rs == Range(results)
           today == TodayRows(variant, ev, clock, tz)
           hosted == variant = "hosted"
           users == IF hosted
                    THEN CountDistinctSessions(Seen(ev, "users", failing))
                    ELSE CountDistinctSessions(ev)
           typed == IF hosted THEN Seen(ev, "topEvents", failing) ELSE ev
           viewed == PageViewRows(variant, ev)
           named == IF hosted THEN Seen(rs, "results", failing) ELSE rs
           typeGroups == GroupCounts(typed, TypeOf(typed))
           pageGroups == GroupCounts(viewed, PageOf(viewed))
           resultGroups == GroupCounts(named, ResultNameOf(named))
           hourGroups == IF hosted THEN {} ELSE GroupCounts(today, HourOf(today))
       IN  /\ jar' = [jar EXCEPT ![c] = StoreCookie(@, setCookie)]
           /\ req' = [op |-> "dashboard", client |-> c, cookie |-> cookie]
           /\ IF ~dbOk
              THEN resp' = [op |-> "dashboard", status |-> 500, faults |-> TRUE,
                            setCookie |-> setCookie, ids |-> <<>>]
              ELSE \E top \in OrderByCountDesc(typeGroups),
                      pv \in OrderByCountDesc(pageGroups),
                      qr \in OrderByCountDesc(resultGroups) :
                     resp' =
                       [op |-> "dashboard", status |-> 200,
                        faults |-> failing # {},
                        totalEvents |-> IF hosted
                            THEN Cardinality(Seen(ev, "totalEvents", failing))
                            ELSE Cardinality(ev),
                        totalUsers |-> users,
                        totalSessions |-> users,
                        todayEvents |-> IF hosted
                            THEN Cardinality(Seen(today, "todayEvents", failing))
                            ELSE Cardinality(today),
                        todayUsers |-> IF hosted THEN users
                                       ELSE CountDistinctSessions(today),
                        topEvents |-> Take(top, TopEventsLimit),
                        pageViews |-> Take(pv, PageViewsCap(variant)),
                        quizResults |-> IF variant = "tracker"
                                        THEN Take(qr, TopEventsLimit) ELSE qr,
                        hourlyEvents |-> OrderByKeyAsc(hourGroups),
                        setCookie |-> setCookie, ids |-> <<>>]
    /\ UNCHANGED <<walk, dash, variant, tz, clock, configured, events, results, inflight,
                   pending, mirrorEvents, mirrorResults>>

(* The hosted handler awaits its five queries one after another; between   *)
(* two of them the process serves other requests.                          *)
DashOrder == <<"totalEvents", "users", "todayEvents", "topEvents", "results">>

(* the handler starts: const today = dayjs().startOf('day'), first query   *)
(* issued                                                                  *)
HostedDashboardBegins(c) ==
    /\ variant = "hosted"
    /\ ~dash.active
    /\ dash' = [active |-> TRUE, client |-> c, cookie |-> jar[c],
                setCookie |-> SessionMiddleware(jar[c], UsedTokens),
                now |-> clock, pc |-> 1, failing |-> {},
                totalEvents |-> 0, users |-> 0, todayEvents |-> 0,
                typeGroups |-> {}, resultGroups |-> {}]
    /\ UNCHANGED <<walk, variant, tz, clock, configured, events, results, jar,
                   inflight, pending, mirrorEvents, mirrorResults, req, resp>>

(* the awaited query DashOrder[dash.pc] is answered from the tables as     *)
(* they are now (ok), or with an error the handler does not look at; after *)
(* the last one the handler responds                                       *)
HostedDashboardAwaits(ok) ==
    /\ variant = "hosted"
    /\ dash.active
    /\ LET q == DashOrder[dash.pc]
           lost == IF ok THEN {} ELSE {q}
           ev == Seen(Range(events), q, lost)
           rs == Seen(Range(results), q, lost)
           today == TodayRows(variant, ev, dash.now, tz)
           d == [dash EXCEPT
                   !.failing = @ \cup lost,
                   !.totalEvents = IF q = "totalEvents" THEN Cardinality(ev) ELSE @,
                   !.users = IF q = "users" THEN CountDistinctSessions(ev) ELSE @,
                   !.todayEvents = IF q = "todayEvents" THEN Cardinality(today) ELSE @,
                   !.typeGroups = IF q = "topEvents"
                                  THEN GroupCounts(ev, TypeOf(ev)) ELSE @,
                   !.resultGroups = IF q = "results"
                                    THEN GroupCounts(rs, ResultNameOf(rs)) ELSE @]
       IN  IF dash.pc < Len(DashOrder)
           THEN /\ dash' = [d EXCEPT !.pc = @ + 1]
                /\ UNCHANGED <<jar, req, resp>>
           ELSE /\ dash' = Idle
                /\ jar' = [jar EXCEPT ![d.client] = StoreCookie(@, d.setCookie)]
                /\ req' = [op |-> "dashboard", client |-> d.client,
                           cookie |-> d.cookie]
                /\ \E top \in OrderByCountDesc(d.typeGroups),
                      qr \in OrderByCountDesc(d.resultGroups) :
                     resp' =
                       [op |-> "dashboard", status |-> 200,
                        faults |-> d.failing # {},
                        totalEvents |-> d.totalEvents,
                        totalUsers |-> d.users,
                        totalSessions |-> d.users,
                        todayEvents |-> d.todayEvents,
                        todayUsers |-> d.users,
                        topEvents |-> Take(top, TopEventsLimit),
                        pageViews |-> <<>>,
                        quizResults |-> qr,
                        hourlyEvents |-> <<>>,
                        setCookie |-> d.setCookie, ids |-> <<>>]
    /\ UNCHANGED <<walk, variant, tz, clock, configured, events, results,
                   inflight, pending, mirrorEvents, mirrorResults>>

InitDash == InitStored(DashVariants, {NoReq})

(* the dashboard is computed once over the stored tables *)
NextDash ==
    \E c \in Clients, dbOk \in BOOLEAN, failing \in SUBSET DashQueries :
        /\ resp = NoResp
        /\ GetDashboard(c, dbOk, failing)

SpecDash == InitDash /\ [][NextDash]_vars

----------------------------------------------------------------------------
(* GET /api/realtime *)

(* ticks of the five minutes of dayjs().subtract(5, 'minute') *)
FiveMinutes == 1
RecentListLimit == 20          \* LIMIT 20 / .limit(20)
TrackerRecentListLimit == 10   \* LIMIT 10

RealtimeVariants == {"sqlite", "hosted", "tracker", "mirror"}
RealtimeQueries == {"recentEvents", "onlineUsers", "recentEventList"}

RecentRowsExclusive(rows, since) == {r \in rows : r.ts > since}

(* WHERE ts >= ? / .gte('ts', fiveMinutesAgo) *)
RecentRows(rows, since) == {r \in rows : r.ts >= since}

(* one entry of recentEventList *)
FormatRecent(v, r) ==
    IF v = "tracker"
    THEN [timestamp |-> r.ts, event_name |-> r.type,
          session_id |-> r.session_id, page |-> r.page]
    ELSE [event_name |-> r.type, timestamp |-> r.ts,
          user_id |-> r.session_id, page |-> r.page]

RecentListCap(v) ==
    IF v = "tracker" THEN TrackerRecentListLimit ELSE RecentListLimit

(* GET /api/realtime. dbOk: no SQLite statement throws. failing: the       *)
(* queries of the hosted handler that return an error, which it ignores.   *)
(* faults records whether any store call of the request failed.            *)
GetRealtime(c, dbOk, failing) ==
    /\ variant \in RealtimeVariants
    /\ (variant = "hosted" \/ failing = {})
    /\ (variant # "hosted" \/ dbOk)
    /\ LET cookie == jar[c]
           setCookie == SetCookies(variant, cookie, UsedTokens)
           ev == Range(events)
           since == clock - FiveMinutes
           hosted == variant = "hosted"
           counted == IF hosted THEN Seen(ev, "recentEvents", failing) ELSE ev
           online == IF hosted THEN Seen(ev, "onlineUsers", failing) ELSE ev
           listed == IF hosted THEN Seen(ev, "recentEventList", failing) ELSE ev
       IN  /\ jar' = [jar EXCEPT ![c] = StoreCookie(@, setCookie)]
           /\ req' = [op |-> "realtime", client |-> c, cookie |-> cookie]
           /\ IF ~dbOk
              THEN resp' = [op |-> "realtime", status |-> 500, faults |-> TRUE,
                            setCookie |-> setCookie, ids |-> <<>>]
              ELSE \E ordered \in OrderByTsDesc(listed) :
                     resp' =
                       [op |-> "realtime", status |-> 200,
                        faults |-> failing # {},
                        recentEvents |-> Cardinality(RecentRows(counted, since)),
                        onlineUsers |->
                            CountDistinctSessions(RecentRows(online, since)),
                        recentEventList |->
                            [i \in 1 .. Min(Len(ordered), RecentListCap(variant)) |->
                                FormatRecent(variant, ordered[i])],
                        setCookie |-> setCookie, ids |-> <<>>]
    /\ UNCHANGED <<walk, dash, variant, tz, clock, configured, events, results, inflight,
                   pending, mirrorEvents, mirrorResults>>

InitRealtime == InitStored(RealtimeVariants, {NoReq})

(* the realtime figures are computed once over the stored tables *)
NextRealtime ==
    \E c \in Clients, dbOk \in BOOLEAN, failing \in SUBSET RealtimeQueries :
        /\ resp = NoResp
        /\ GetRealtime(c, dbOk, failing)

SpecRealtime == InitRealtime /\ [][NextRealtime]_vars

MirrorStep ==
    \E p \in pending, stored \in BOOLEAN : MirrorSettles(p, stored)

(* the event-ingestion path *)
NextEvents ==
    \/ Tick
    \/ \E c \in Clients, body \in EventBodies, failAt \in 0 .. MaxBatch :
          PostEvents(c, body, failAt)
    \/ \E c \in Clients, body \in EventBodies : HostedPostEvents(c, body)
    \/ \E stored \in BOOLEAN : HostedInsertSettles(stored)
    \/ MirrorStep

(* the quiz-result path and the session's own read of it *)
NextResults ==
    \/ Tick
    \/ \E c \in Clients, body \in ResultBodies, stored \in BOOLEAN :
          PostResults(c, body, stored)
    \/ \E c \in Clients, remoteOk \in BOOLEAN, dbOk \in BOOLEAN :
          GetUserResults(c, remoteOk, dbOk)
    \/ MirrorStep

SpecEvents == Init /\ [][NextEvents]_vars
SpecResults == Init /\ [][NextResults]_vars

(* the SQLite + mirror program alone: both write paths and the forwards *)
InitMirror == Init /\ variant = "mirror"

(* requests of one client, within one reading of the clock *)
NextMirror ==
    \/ \E body \in EventBodies, failAt \in 0 .. MaxBatch :
          PostEvents("c1", body, failAt)
    \/ \E body \in ResultBodies, stored \in BOOLEAN :
          PostResults("c1", body, stored)
    \/ MirrorStep

SpecMirror == InitMirror /\ [][NextMirror]_vars

(* every endpoint of the API, called by one client within one reading of   *)
(* the clock, in any order                                                 *)
ApiEventBodies ==
    {body \in {Batch(<<PageViewItem, SelectItem>>), Single(PageViewItem)} :
        Len(body.batch) <= MaxBatch}
ApiResultBodies == {[result_name |-> "INTJ", scores |-> Scores]}

NextApi ==
    \/ \E body \in ApiEventBodies, failAt \in 0 .. MaxBatch :
          PostEvents("c1", body, failAt)
    \/ \E body \in ApiEventBodies : HostedPostEvents("c1", body)
    \/ \E stored \in BOOLEAN : HostedInsertSettles(stored)
    \/ \E body \in ApiResultBodies, stored \in BOOLEAN :
          PostResults("c1", body, stored)
    \/ \E what \in {"getEvents", "getResults"}, storeOk \in BOOLEAN :
          /\ GetPaged(what, "c1", NoDate, NoDate, 1, NoPageSize, storeOk)
          /\ UNCHANGED walk
    \/ \E remoteOk \in BOOLEAN, dbOk \in BOOLEAN :
          GetUserResults("c1", remoteOk, dbOk)
    \/ \E dbOk \in BOOLEAN : GetDashboard("c1", dbOk, {})
    \/ \E dbOk \in BOOLEAN : GetRealtime("c1", dbOk, {})
    \/ MirrorStep

SpecApi == Init /\ [][NextApi]_vars

(* the dashboard read while another client posts events, within one        *)
(* reading of the clock: the synchronous SQLite program and the hosted     *)
(* program                                                                 *)
InitLive == Init /\ variant \in {"sqlite", "hosted"}
NextLive ==
    \/ \E body \in ApiEventBodies, failAt \in 0 .. MaxBatch :
          PostEvents("c1", body, failAt)
    \/ \E body \in ApiEventBodies : HostedPostEvents("c1", body)
    \/ \E stored \in BOOLEAN : HostedInsertSettles(stored)
    \/ \E dbOk \in BOOLEAN : variant = "sqlite" /\ GetDashboard("c2", dbOk, {})
    \/ HostedDashboardBegins("c2")
    \/ \E ok \in BOOLEAN : HostedDashboardAwaits(ok)

SpecLive == InitLive /\ [][NextLive]_vars

----------------------------------------------------------------------------
(* Properties *)

WriteOps == {"postEvents", "postResults"}
PagedOps == {"getEvents", "getResults"}

(* the rows in the events table that the request last answered wrote *)
EventRowsOfRequest == {r \in Range(events) : r.id \in Range(resp.ids)}
(* the rows in the results table that the request last answered wrote *)
ResultRowsOfRequest == {r \in Range(results) : r.id \in Range(resp.ids)}
(* the number of items the request last answered submitted *)
ItemsSubmitted == Len(ItemsOf(variant, req.body))

(* C1: once a POST /api/events request carrying N items has been answered, *)
(* the events table holds either all N rows of that request or none.       *)
C1_AllOrNothing ==
    resp.op = "postEvents" =>
        Cardinality(EventRowsOfRequest) \in {0, ItemsSubmitted}

(* C2: a write request whose insert failed is answered 500 and not         *)
(* {ok:true}; an {ok:true} answer implies every row of the request is      *)
(* stored.                                                                 *)
C2_FailureIsSignalled ==
    resp.op \in WriteOps =>
        LET stored == IF resp.op = "postEvents" THEN EventRowsOfRequest
                      ELSE ResultRowsOfRequest
            missing == Cardinality(stored) < Len(resp.ids)
        IN  /\ missing => (resp.status = 500 /\ ~resp.ok)
            /\ resp.ok => ~missing

(* C3: the session middleware sets exactly one fresh, non-empty session_id *)
(* cookie on a request that carries none, and sets no cookie on a request  *)
(* that carries one.                                                       *)
C3_SessionCookie ==
    (resp.op # "none" /\ HasSession(variant)) =>
        IF req.cookie = NoSession
        THEN /\ Len(resp.setCookie) = 1
             /\ resp.setCookie[1] # NoSession
             /\ \A r \in Range(events) \cup Range(results) :
                    r.session_id # resp.setCookie[1]
             /\ \A c \in Clients \ {req.client} : jar[c] # resp.setCookie[1]
        ELSE resp.setCookie = <<>>

(* C3 witness: a client presents the token an earlier response minted for  *)
(* it and is sent no replacement.                                          *)
C3_Witness ==
    /\ HasSession(variant)
    /\ resp.op = "userResults"
    /\ req.cookie # NoSession
    /\ jar[req.client] = req.cookie
    /\ resp.setCookie = <<>>

(* C4: after a successful POST /api/results, the next GET /api/user-results *)
(* of the same client, which re-sends the cookie the server issued, lists  *)
(* the recorded result (stated for the SQLite+mirror program).             *)
C4_ReadsOwnResult ==
    [][(/\ variant = "mirror"
        /\ resp.op = "postResults" /\ resp.ok
        /\ req'.op = "userResults" /\ req'.client = req.client
        /\ resp'.status = 200)
       => resp.ids[1] \in {x.id : x \in Range(resp'.results)}]_vars

(* C5: all event rows written by one POST /api/events request carry the    *)
(* same timestamp and the same session id.                                 *)
C5_SharedStamp ==
    resp.op = "postEvents" =>
        \A r1, r2 \in EventRowsOfRequest :
            r1.ts = r2.ts /\ r1.session_id = r2.session_id

(* C6: an answer {ok:true, inserted:k} of POST /api/events has k equal to  *)
(* the number of items submitted and to the number of rows added.          *)
C6_InsertedCount ==
    (resp.op = "postEvents" /\ resp.ok /\ resp.inserted # NoCount) =>
        /\ resp.inserted = ItemsSubmitted
        /\ resp.inserted = Cardinality(EventRowsOfRequest)

(* C7: whatever pageSize is requested, a paged response holds at most      *)
(* min(requested, 500) rows, and never more than 500.                      *)
C7_PageSizeBound ==
    (resp.op \in PagedOps /\ resp.status = 200) =>
        /\ Len(resp.rows) <= MaxPageSize
        /\ (req.pageSize.given /\ req.pageSize.numeric) =>
              Len(resp.rows) <= Max(0, Min(req.pageSize.value, MaxPageSize))

(* the table a paged request reads and the rows its date filter admits *)
TableOfRequest == IF req.op = "getEvents" THEN events ELSE results
MatchingOfRequest == FilterByDate(variant, TableOfRequest, req.start, req.end, tz)

(* C8: page p of effective size s holds exactly the rows at positions      *)
(* (p-1)*s .. (p-1)*s+s-1 of the filtered table in descending timestamp    *)
(* order, and is itself in non-increasing timestamp order.                 *)
C8_PageWindow ==
    (resp.op \in PagedOps /\ resp.status = 200 /\ resp.limit > 0) =>
        LET s == resp.limit
            first == (req.page - 1) * s
            F == MatchingOfRequest
            rows == resp.rows
        IN  /\ Len(rows) = Max(0, Min(s, Cardinality(F) - first))
            /\ \A i, j \in DOMAIN rows :
                   i < j => /\ rows[i].timestamp >= rows[j].timestamp
                            /\ rows[i].id # rows[j].id
            /\ \A k \in DOMAIN rows :
                   /\ \E r \in F : r.id = rows[k].id /\ r.ts = rows[k].timestamp
                   /\ Cardinality({r \in F : r.ts > rows[k].timestamp})
                          <= first + k - 1
                   /\ Cardinality({r \in F : r.ts >= rows[k].timestamp})
                          >= first + k

(* C8 witness: a second page of size 1 is served from a filtered table in  *)
(* which two rows share a timestamp.                                       *)
C8_Witness ==
    /\ resp.op \in PagedOps /\ resp.status = 200
    /\ req.page = 2 /\ resp.limit = 1 /\ Len(resp.rows) = 1
    /\ \E r1, r2 \in MatchingOfRequest : r1 # r2 /\ r1.ts = r2.ts

(* C9: with start=D and/or end=D, every row stamped at or after the first  *)
(* instant of day D, and at or before the last instant of day D, is        *)
(* returned when the page is large enough to hold the whole table.         *)
C9_WholeDay ==
    (/\ resp.op \in PagedOps /\ resp.status = 200 /\ req.page = 1
     /\ (resp.limit < 0 \/ resp.limit >= Len(TableOfRequest))) =>
        \A r \in Range(TableOfRequest) :
            (/\ (req.start = NoDate \/ r.ts >= StartOfDay(req.start, tz))
             /\ (req.end = NoDate \/ r.ts <= EndOfDay(req.end, tz)))
            => r.id \in {x.id : x \in Range(resp.rows)}

(* a ranking: ordered by non-increasing count, at most cap entries, every  *)
(* entry a group of G with its true count, no omitted group of G counted   *)
(* higher than a listed one                                                *)
IsRanking(list, G, cap) ==
    /\ Len(list) <= cap
    /\ \A i, j \in DOMAIN list : i < j => list[i].count >= list[j].count
    /\ \A i \in DOMAIN list : list[i] \in G
    /\ \A g \in G \ Range(list) : \A i \in DOMAIN list : g.count <= list[i].count

(* C10: in a dashboard response topEvents ranks the event types (cap 6)    *)
(* and pageViews ranks the pages of the 'page_view' events only (cap 10 or *)
(* 6), each with its true count.                                           *)
C10_Rankings ==
    (resp.op = "dashboard" /\ resp.status = 200) =>
        LET all == Range(events)
            views == {r \in all : r.type = "page_view"}
        IN  /\ IsRanking(resp.topEvents, GroupCounts(all, TypeOf(all)),
                         TopEventsLimit)
            /\ IsRanking(resp.pageViews, GroupCounts(views, PageOf(views)),
                         PageViewsCap(variant))

(* the boundary of the trailing window of the request last answered *)
WindowStart == clock - FiveMinutes

EntriesOfResponse ==
    IF resp.op = "userResults" THEN Range(resp.results) ELSE Range(resp.rows)

(* C12: the scores of every entry that GET /api/user-results or            *)
(* GET /api/results returns for a recorded result are the mapping that was *)
(* submitted, not its serialized text.                                     *)
C12_ScoresRoundTrip ==
    (resp.op \in {"userResults", "getResults"} /\ resp.status = 200) =>
        \A x \in EntriesOfResponse :
            \A r \in Range(results) \cup mirrorResults :
                r.id = x.id => x.scores = JSONparse(r.score_json)

(* the events stamped during the server's current local day *)
EventsOfToday ==
    {r \in Range(events) : r.ts >= StartOfDay(LocalDay(clock, tz), tz)}

(* C13: a read whose table or filter matches no row, and whose store calls *)
(* all succeeded, answers 200 with every list over those rows empty and    *)
(* every count over them 0.                                                *)
C13_EmptyIsNotAnError ==
    /\ (resp.op = "dashboard" /\ ~resp.faults) =>
          /\ resp.status = 200
          /\ events = <<>> =>
                /\ resp.totalEvents = 0 /\ resp.totalUsers = 0
                /\ resp.totalSessions = 0 /\ resp.topEvents = <<>>
          /\ {r \in Range(events) : r.type = "page_view"} = {} =>
                resp.pageViews = <<>>
          /\ results = <<>> => resp.quizResults = <<>>
          /\ EventsOfToday = {} =>
                /\ resp.todayEvents = 0 /\ resp.todayUsers = 0
                /\ resp.hourlyEvents = <<>>
    /\ (resp.op = "realtime" /\ ~resp.faults) =>
          /\ resp.status = 200
          /\ events = <<>> => resp.recentEventList = <<>>
          /\ {r \in Range(events) : r.ts >= WindowStart} = {} =>
                resp.recentEvents = 0 /\ resp.onlineUsers = 0
    /\ (resp.op \in PagedOps /\ ~resp.faults) =>
          /\ resp.status = 200
          /\ MatchingOfRequest = {} => resp.rows = <<>>
    /\ (resp.op = "userResults" /\ resp.failed = {} /\ req.cookie # NoSession) =>
          /\ resp.status = 200
          /\ ResultsOfSession(Range(results) \cup mirrorResults, req.cookie) = {} =>
                resp.results = <<>> /\ resp.total = 0

(* a row without its id *)
Anonymous(r) == [r EXCEPT !.id = 0]

(* the answer and the primary tables after a write request, as the program *)
(* without the mirror hook produces them from the same tables and request  *)
PrimaryWriteAlone ==
    IF resp'.op = "postEvents"
    THEN LET items == ItemsOf("sqlite", req'.body)
             N == Len(items)
         IN  /\ results' = results
             /\ IF resp'.status = 200
                THEN /\ resp'.ok /\ resp'.inserted = N
                     /\ Len(events') = Len(events) + N
                     /\ \A i \in DOMAIN events : events'[i] = events[i]
                     /\ \A i \in 1 .. N :
                          Anonymous(events'[Len(events) + i]) =
                          EventRow("sqlite", items[i], 0, clock, req'.cookie,
                                   ClientIp(req'.client))
                ELSE /\ resp'.status = 500 /\ ~resp'.ok /\ events' = events
    ELSE /\ events' = events
         /\ IF resp'.status = 200
            THEN /\ resp'.ok
                 /\ Len(results') = Len(results) + 1
                 /\ \A i \in DOMAIN results : results'[i] = results[i]
                 /\ Anonymous(results'[Len(results')]) =
                    ResultRow("sqlite", req'.body, 0, clock, req'.cookie)
            ELSE /\ resp'.status = 500 /\ ~resp'.ok /\ results' = results

(* C14: in the SQLite + mirror program the answer to a write request and   *)
(* the primary tables are what the primary write alone produces; they are  *)
(* set while the forwards of the request are still unsettled, and no       *)
(* forward that later succeeds or fails changes them.                      *)
C14_MirrorIndependence ==
    [][variant = "mirror" =>
        /\ (pending' # pending /\ pending' \subseteq pending) =>
              UNCHANGED <<events, results, req, resp, jar>>
        /\ (resp' # resp /\ resp'.op \in WriteOps) =>
              /\ mirrorEvents' = mirrorEvents /\ mirrorResults' = mirrorResults
              /\ pending \subseteq pending'
              /\ PrimaryWriteAlone]_vars

(* C14 witness: a batch of two was answered {ok:true, inserted:2}, both    *)
(* rows are in the primary table, and of its two forwards one was stored   *)
(* by the secondary store and one failed.                                  *)
C14_Witness ==
    /\ variant = "mirror" /\ configured
    /\ resp.op = "postEvents" /\ resp.ok /\ resp.inserted = 2
    /\ Cardinality(EventRowsOfRequest) = 2
    /\ pending = {}
    /\ Cardinality(mirrorEvents \cap EventRowsOfRequest) = 1

(* the forwards a step issues *)
Issued == pending' \ pending

(* C15: with the secondary store configured, every row a write request     *)
(* commits to the primary store is handed to the secondary store by        *)
(* exactly one insert call, carrying the same row and id, and no call is   *)
(* ever issued for a row committed earlier (no retry).                     *)
C15_ForwardedOnce ==
    [][(variant = "mirror" /\ configured) =>
        /\ \A r \in Range(events') \ Range(events) :
              Cardinality({p \in Issued : p.table = "events" /\ p.row = r}) = 1
        /\ \A r \in Range(results') \ Range(results) :
              Cardinality({p \in Issued : p.table = "results" /\ p.row = r}) = 1
        /\ \A p \in Issued :
              p.row.id \notin {r.id : r \in Range(events) \cup Range(results)}]_vars

(* C15 witness: a committed result whose one forward failed: nothing is    *)
(* pending for it and the secondary store does not hold it.                *)
C15_Witness ==
    /\ variant = "mirror" /\ configured
    /\ resp.op = "postResults" /\ resp.ok
    /\ Cardinality(ResultRowsOfRequest) = 1
    /\ pending = {} /\ mirrorResults = {}

(* C16: GET /api/user-results of the SQLite + mirror program with token t:  *)
(* when the secondary store is configured and returns rows for t, the      *)
(* response holds exactly those rows; when it is unconfigured, errors or   *)
(* returns none, the response holds exactly the primary rows of t; only a  *)
(* failure of the primary store gives an error response.                   *)
C16_SecondaryThenPrimary ==
    [][(/\ variant = "mirror" /\ req'.op = "userResults"
        /\ (req' # req \/ resp' # resp)
        /\ req'.cookie # NoSession) =>
        LET t == req'.cookie
            sec == {r \in mirrorResults : r.session_id = t}
            prim == {r \in Range(results) : r.session_id = t}
            fromSecondary == /\ configured /\ "secondary" \notin resp'.failed
                             /\ sec # {}
            expected == IF fromSecondary THEN sec ELSE prim
        IN  /\ resp'.status \in {200, 500}
            /\ resp'.status = 500 => "primary" \in resp'.failed
            /\ resp'.status = 200 =>
                  /\ Len(resp'.results) = Cardinality(expected)
                  /\ {[id |-> x.id, result_name |-> x.result_name,
                       ts |-> x.timestamp] : x \in Range(resp'.results)}
                     = {[id |-> r.id, result_name |-> r.result_name,
                         ts |-> r.ts] : r \in expected}]_vars

(* C16 witness: the secondary store errors and the response is a 200 that  *)
(* lists the primary store's row of the session.                           *)
C16_Witness ==
    /\ variant = "mirror" /\ configured
    /\ resp.op = "userResults" /\ resp.status = 200
    /\ resp.failed = {"secondary"}
    /\ Len(resp.results) = 1

(* C17: GET /api/user-results on a request without a session_id cookie is  *)
(* answered 400 without asking either store, although the middleware has  *)
(* just minted a token for that request.                                   *)
C17_NoCookieIsClientError ==
    (resp.op = "userResults" /\ req.cookie = NoSession) =>
        /\ resp.status = 400
        /\ resp.queried = {}
        /\ resp.results = <<>>
        /\ Len(resp.setCookie) = 1

(* C17 witness: a cookie-less request is refused while the store holds a   *)
(* result, and the response carries the token minted for the request.      *)
C17_Witness ==
    /\ resp.op = "userResults" /\ req.cookie = NoSession
    /\ resp.status = 400
    /\ resp.setCookie # <<>>
    /\ results # <<>>

(* C18: a row once in events or results stays there unchanged: every step  *)
(* leaves each stored row in place with all its fields, so the tables only *)
(* grow.                                                                   *)
C18_InsertOnly ==
    [][/\ Len(events') >= Len(events)
       /\ \A i \in DOMAIN events : events'[i] = events[i]
       /\ Len(results') >= Len(results)
       /\ \A i \in DOMAIN results : results'[i] = results[i]]_vars

(* C18 witness: both tables hold rows and a read has been answered since.  *)
C18_Witness ==
    /\ Len(events) = MaxEvents /\ Len(results) = MaxResults
    /\ resp.op \in {"getEvents", "getResults", "dashboard", "realtime",
                    "userResults"}
    /\ resp.status = 200

(* the server clock reading of the request a step works for: the one the  *)
(* suspended handler took when it started, else the clock itself           *)
ServerReading == IF inflight.active THEN inflight.now ELSE clock

(* C19: every row a step adds to events or results carries the server      *)
(* clock reading taken while handling its request, whatever the client     *)
(* sent.                                                                   *)
C19_ServerTimestamp ==
    [][/\ \A i \in DOMAIN events' \ DOMAIN events :
             events'[i].ts = ServerReading
       /\ \A i \in DOMAIN results' \ DOMAIN results :
             results'[i].ts = ServerReading]_vars

(* C20: an accepted POST /api/events persists one row per item of its      *)
(* batch list, and exactly one row when the body is a single event-like    *)
(* payload without a batch list.                                           *)
C20_BothShapes ==
    (resp.op = "postEvents" /\ resp.ok) =>
        Cardinality(EventRowsOfRequest) =
            (IF req.body.isBatch THEN Len(req.body.batch) ELSE 1)

(* the fields the stated precedence gives an item *)
PrecedenceType(it) ==
    OrText(it.type, OrText(it.event, OrText(PropOf(it, "event"), "custom")))
PrecedencePage(it) == OrText(it.page, OrText(PropOf(it, "page"), ""))
PrecedencePayload(it) == OrObj(it.payload, OrObj(it.properties, EmptyObj))

(* C21: every stored row of an accepted POST /api/events carries the type, *)
(* page and properties its item resolves to under the fixed precedence:    *)
(* type, else event, else properties.event, else 'custom'; page, else      *)
(* properties.page, else ''; payload, else properties, else {}.            *)
C21_FieldPrecedence ==
    (resp.op = "postEvents" /\ resp.ok) =>
        \A i \in DOMAIN resp.ids : \A r \in Range(events) :
            r.id = resp.ids[i] =>
                LET it == ItemsOf(variant, req.body)[i]
                IN  /\ r.type = PrecedenceType(it)
                    /\ r.page = PrecedencePage(it)
                    /\ JSONparse(r.payload) = PrecedencePayload(it)

(* C22: no read query sees part of a batch. When a step stores a further   *)
(* row of the batch a handler is working on, the GET /api/events response  *)
(* last answered holds no row of that same batch: a read that saw a row    *)
(* of the batch would have seen a non-empty proper subset of it.           *)
C22_NoTornRead ==
    [][(/\ inflight.active
        /\ Len(events') > Len(events)
        /\ resp.op = "getEvents" /\ resp.status = 200)
       => \A i \in DOMAIN resp.rows :
             resp.rows[i].id \notin SeqToSet(inflight.ids)]_vars

(* C23: in a dashboard response whose store calls all succeeded,           *)
(* todayUsers is the number of distinct session ids among the events       *)
(* stamped at or after the start of the server's current day, and          *)
(* totalUsers the number of distinct session ids among all events.         *)
C23_UserCounts ==
    (resp.op = "dashboard" /\ resp.status = 200 /\ ~resp.faults) =>
        /\ resp.todayUsers = CountDistinctSessions(EventsOfToday)
        /\ resp.totalUsers = CountDistinctSessions(Range(events))

(* C24: payload shape problems are defaulted, never rejected. A POST       *)
(* /api/results row is stored with result_name '' and scores {} where the  *)
(* body lacks them, under an {ok:true} answer; a POST /api/events whose    *)
(* insert statement did not fail is answered with success, whatever its    *)
(* items lack and also when an item is null.                               *)
C24_DefaultedNotRejected ==
    /\ resp.op = "postResults" =>
          \A r \in ResultRowsOfRequest :
             /\ resp.ok /\ resp.status = 200
             /\ req.body.result_name = Undef => r.result_name = ""
             /\ req.body.scores = UndefObj =>
                   /\ r.score_json # NullJson
                   /\ JSONparse(r.score_json) = EmptyObj
    /\ (resp.op = "postEvents" /\ ~resp.storeThrew) =>
          resp.ok /\ resp.status = 200

(* ids of the rows committed in the primary store *)
CommittedIds ==
    {events[i].id : i \in DOMAIN events}
    \cup {results[i].id : i \in DOMAIN results}

(* C25: every row handed to the secondary store, in flight or stored       *)
(* there, is a row committed in the primary store; a rolled-back batch has *)
(* forwarded nothing.                                                      *)
C25_MirrorOnlyCommitted ==
    variant = "mirror" =>
        /\ \A p \in pending : p.row.id \in CommittedIds
        /\ \A r \in mirrorEvents \cup mirrorResults : r.id \in CommittedIds

(* C26: every entry GET /api/user-results returns to a request carrying    *)
(* token t is a results row whose session_id is t, whichever store served  *)
(* it; rows recorded under another token or under none are not returned.   *)
C26_SessionIsolation ==
    [][(/\ req'.op = "userResults"
        /\ (req' # req \/ resp' # resp)) =>
        \A x \in Range(resp'.results) :
            \A r \in Range(results) \cup mirrorResults :
                r.id = x.id =>
                    r.session_id = req'.cookie /\ r.session_id # NoSession]_vars

(* C26 witness: a request with a token was served its own row while the    *)
(* table also holds a row recorded under another token or under none.      *)
C26_Witness ==
    /\ resp.op = "userResults" /\ resp.status = 200
    /\ req.cookie # NoSession
    /\ Len(resp.results) >= 1
    /\ \E r \in Range(results) : r.session_id # req.cookie
    /\ \A x \in Range(resp.results) :
          \E r \in Range(results) \cup mirrorResults : r.id = x.id

(* C27: in every dashboard response whose store calls all succeeded,       *)
(* todayEvents <= totalEvents and todayUsers <= totalUsers, also when       *)
(* events are posted between the handler's read statements.                *)
C27_DashboardConsistent ==
    (resp.op = "dashboard" /\ resp.status = 200 /\ ~resp.faults) =>
        /\ resp.todayEvents <= resp.totalEvents
        /\ resp.todayUsers <= resp.totalUsers

(* C28: with no write in between, the pages 1, 2, ..., k a client reads    *)
(* with one filter and one page size are pairwise disjoint, and once the   *)
(* last page has come their union is the whole filtered row set, also when *)
(* rows share a timestamp.                                                 *)
C28_PagesPartition ==
    walk.active =>
        /\ \A i, j \in DOMAIN walk.got :
              i < j => Range(walk.got[i]) \cap Range(walk.got[j]) = {}
        /\ walk.done =>
              UNION {Range(walk.got[i]) : i \in DOMAIN walk.got} =
                 {r.id : r \in FilterByDate(variant, events, walk.start,
                                            walk.end, tz)}

RECURSIVE SumOfCounts(_)
SumOfCounts(q) == IF q = <<>> THEN 0 ELSE Head(q).count + SumOfCounts(Tail(q))

(* C29: in a dashboard response of the SQLite programs, hourlyEvents lists  *)
(* its hour keys in strictly ascending order (so each at most once), every *)
(* count is positive and counts no more than the events of that hour among *)
(* those counted in todayEvents, and the counts add up to todayEvents.     *)
C29_HourlyEvents ==
    (/\ resp.op = "dashboard" /\ resp.status = 200
     /\ variant \in {"sqlite", "mirror", "tracker"}) =>
        LET h == resp.hourlyEvents
            today == TodayRows(variant, Range(events), clock, tz)
        IN  /\ \A i, j \in DOMAIN h : i < j => h[i].key < h[j].key
            /\ \A i \in DOMAIN h :
                  /\ h[i].count > 0
                  /\ h[i].count <=
                        Cardinality({r \in today : r.ts % TicksPerDay = h[i].key})
            /\ SumOfCounts(h) = resp.todayEvents

(* C29 witness: a response with two hour buckets for today's two events,   *)
(* while the table also holds an event that is not counted for today.      *)
C29_Witness ==
    /\ resp.op = "dashboard" /\ resp.status = 200
    /\ variant \in {"sqlite", "mirror", "tracker"}
    /\ Len(resp.hourlyEvents) = 2
    /\ resp.todayEvents = 2
    /\ Len(events) > resp.todayEvents

====
